---- MODULE Spec2Model ----
(***************************************************************************)
(* Model of steam_price_bot.py: the sqlite tables, the hourly price poll   *)
(* (monitor_prices), the 12-hourly promotion check (check_sales_calendar)  *)
(* and the slash-command handlers that write the tables.                   *)
(*                                                                         *)
(* The bot runs on one asyncio event loop: code between two awaits is      *)
(* atomic.  A coroutine is modelled by a record with a pc; the pcs in      *)
(* MonAwait / SaleAwait are the awaits (fetch, channel.send, sleep), the   *)
(* other pcs are positions inside one atomic run, during which no other    *)
(* coroutine may step.                                                     *)
(*                                                                         *)
(* Every sqlite helper has the shape  try: connect/execute/commit          *)
(* except: log, return default   finally: conn.close().  Its outcomes are  *)
(* "ok", "fail" (execute or commit raised: nothing is committed, the       *)
(* default is returned) and "raise" (sqlite3.connect raised: conn is       *)
(* unbound, so conn.close() in the finally clause raises                   *)
(* UnboundLocalError to the caller).                                       *)
(***************************************************************************)
EXTENDS Integers, Sequences, FiniteSets

\* ------------------------------------------------------------ bounds
MaxCycles == 2
MaxObs == 2
MaxChecks == 2
MaxEvents == 1
MaxPriceScript == 3
MaxFreeScript == 5

\* ------------------------------------------------------------ domains
AppIds == {570, 730}
Guilds == {1, 2}
\* price_overview.final, in the currency's minor unit (the code divides by 100,
\* which preserves order and equality of the values used here)
Prices == {0, 9000, 10000}
NoPrice == -1

VARIABLES
    tracked_games,      \* table: app_id -> [is_free]
    historical_low,     \* table: app_id (region 'tw') -> [lowest_price, date]
    price_history,      \* table, in insertion order: [app_id, price, timestamp]
    new_low_events,     \* table, in id order: [app_id, price, date]
    free_game_events,   \* table, in id order: [app_id, date]
    server_settings,    \* table: guild_id -> [channel_id, enable_sale]
    sale_notifications, \* table, in id order: [sale_name, year]
    sent,               \* embeds delivered by channel.send, in order
    now,                \* wall clock read by check_upcoming_sales
    mon,                \* the monitor_prices coroutine
    sale,               \* the check_sales_calendar coroutine
    trk,                \* a track_game command in flight
    reply,              \* the answer of the last slash command: [kind, app_id]
    script,             \* what the store API answers to the poll, when scripted
    nobs,               \* answers the store API has given to the poll
    cycles,             \* monitor_prices iterations started
    checks,             \* check_sales_calendar iterations started
    budget,             \* environment events still allowed: slash commands,
                        \* reconnects, failing sqlite calls, failing sends,
                        \* dropped channels
    ready               \* ready events seen, on_ready handlers awaiting
                        \* bot.tree.sync(), and the running tasks of each loop

vars == <<tracked_games, historical_low, price_history, new_low_events,
          free_game_events, server_settings, sale_notifications, sent, now,
          mon, sale, trk, reply, script, nobs, cycles, checks, budget, ready>>

dbvars == <<tracked_games, historical_low, price_history, new_low_events,
            free_game_events, server_settings, sale_notifications>>

\* ------------------------------------------------------------ helpers
RECURSIVE SortedSeq(_)
SortedSeq(S) ==
    IF S = {} THEN <<>>
    ELSE LET m == CHOOSE x \in S : \A y \in S : x <= y
         IN <<m>> \o SortedSeq(S \ {m})

Outcomes == IF budget > 0 THEN {"ok", "fail", "raise"} ELSE {"ok"}
SendOutcomes == IF budget > 0 THEN {"ok", "raise"} ELSE {"ok"}
Charge(o) == IF o = "ok" THEN budget ELSE budget - 1


\* ------------------------------------------------------------ values
NoInfo == [success |-> FALSE, is_free |-> FALSE, has_price |-> FALSE, final |-> NoPrice]

\* what get_steam_game_info can return: None, or the 'data' object with its
\* is_free flag and its optional price_overview
GameInfos ==
    {NoInfo}
    \cup {[success |-> TRUE, is_free |-> f, has_price |-> FALSE, final |-> NoPrice] :
             f \in BOOLEAN}
    \cup {[success |-> TRUE, is_free |-> FALSE, has_price |-> TRUE, final |-> p] :
             p \in Prices}

NoDrop == [num |-> 0, den |-> 1]

NoEmbed == [kind |-> "none", app_id |-> 0, sale_name |-> "", year |-> 0,
            days_until |-> 0, price |-> NoPrice, old_price |-> NoPrice, drop |-> NoDrop]

FreeEmbed(app_id) == [NoEmbed EXCEPT !.kind = "free", !.app_id = app_id]

\* the drop and previous-low fields are added only under  if old_price:
LowEmbed(app_id, price, old_price, drop) ==
    [NoEmbed EXCEPT !.kind = "low", !.app_id = app_id, !.price = price,
                    !.old_price = IF old_price # NoPrice /\ old_price # 0
                                  THEN old_price ELSE NoPrice,
                    !.drop = IF old_price # NoPrice /\ old_price # 0
                             THEN drop ELSE NoDrop]

SaleEmbed(s) == [NoEmbed EXCEPT !.kind = "sale", !.sale_name = s.name,
                                !.year = s.year, !.days_until = s.days_until]

Delivered(channel_id, embed) == [channel_id |-> channel_id, embed |-> embed]

\* what a slash command answers, and for which entity (0: none)
Reply(kind, app_id) == [kind |-> kind, app_id |-> app_id]

NoReply == Reply("none", 0)

\* ------------------------------------------------------------ sqlite helpers
\* Each operator is the committed effect and the return value of the helper
\* when its outcome is "ok".

Upsert(table, key, row) ==
    [k \in DOMAIN table \cup {key} |-> IF k = key THEN row ELSE table[k]]

\* variant: a DELETE without its WHERE clause
DeleteRowNoWhere(table, key) == [k \in {} |-> table[k]]

DeleteRow(table, key) == [k \in DOMAIN table \ {key} |-> table[k]]

set_notification_channel(settings, guild_id, channel_id, enable_sale) ==
    Upsert(settings, guild_id, [channel_id |-> channel_id, enable_sale |-> enable_sale])

get_all_notification_channels(settings) ==
    LET gs == SortedSeq(DOMAIN settings)
    IN [n \in 1..Len(gs) |->
           [guild_id |-> gs[n], channel_id |-> settings[gs[n]].channel_id,
            enable_sale |-> settings[gs[n]].enable_sale]]

\* variant: an entity without a row is treated like one stored as paid
check_free_game_unknown_as_paid(games, app_id, is_currently_free) ==
    IF app_id \notin DOMAIN games
    THEN [tracked_games |-> games, became_free |-> is_currently_free]
    ELSE IF ~games[app_id].is_free /\ is_currently_free
    THEN [tracked_games |-> [games EXCEPT ![app_id].is_free = is_currently_free],
          became_free |-> TRUE]
    ELSE [tracked_games |-> games, became_free |-> FALSE]

\* variant: the transition is reported without the UPDATE of is_free
check_free_game_no_commit(games, app_id, is_currently_free) ==
    IF app_id \in DOMAIN games /\ ~games[app_id].is_free /\ is_currently_free
    THEN [tracked_games |-> games, became_free |-> TRUE]
    ELSE [tracked_games |-> games, became_free |-> FALSE]

check_free_game(games, app_id, is_currently_free) ==
    IF app_id \in DOMAIN games /\ ~games[app_id].is_free /\ is_currently_free
    THEN [tracked_games |-> [games EXCEPT ![app_id].is_free = is_currently_free],
          became_free |-> TRUE]
    ELSE [tracked_games |-> games, became_free |-> FALSE]

\* variant: the comparison of the new-low branch reversed
check_historical_low_reversed(lows, app_id, current_price, date) ==
    IF app_id \notin DOMAIN lows
    THEN [historical_low |-> Upsert(lows, app_id,
                                [lowest_price |-> current_price, date |-> date]),
          is_new_low |-> TRUE, old_price |-> NoPrice, drop |-> NoDrop]
    ELSE IF current_price > lows[app_id].lowest_price /\ current_price > 0
    THEN [historical_low |-> [lows EXCEPT ![app_id] =
                                [lowest_price |-> current_price, date |-> date]],
          is_new_low |-> TRUE, old_price |-> lows[app_id].lowest_price,
          drop |-> [num |-> (lows[app_id].lowest_price - current_price) * 100,
                    den |-> lows[app_id].lowest_price]]
    ELSE [historical_low |-> lows, is_new_low |-> FALSE,
          old_price |-> NoPrice, drop |-> NoDrop]

\* variant: the new-low branch without its  current_price > 0  guard
check_historical_low_any_price(lows, app_id, current_price, date) ==
    IF app_id \notin DOMAIN lows
    THEN [historical_low |-> Upsert(lows, app_id,
                                [lowest_price |-> current_price, date |-> date]),
          is_new_low |-> TRUE, old_price |-> NoPrice, drop |-> NoDrop]
    ELSE IF current_price < lows[app_id].lowest_price
    THEN [historical_low |-> [lows EXCEPT ![app_id] =
                                [lowest_price |-> current_price, date |-> date]],
          is_new_low |-> TRUE, old_price |-> lows[app_id].lowest_price,
          drop |-> [num |-> (lows[app_id].lowest_price - current_price) * 100,
                    den |-> lows[app_id].lowest_price]]
    ELSE [historical_low |-> lows, is_new_low |-> FALSE,
          old_price |-> NoPrice, drop |-> NoDrop]

\* variant: a price equal to the stored low counts as a new low
check_historical_low_or_equal(lows, app_id, current_price, date) ==
    IF app_id \notin DOMAIN lows
    THEN [historical_low |-> Upsert(lows, app_id,
                                [lowest_price |-> current_price, date |-> date]),
          is_new_low |-> TRUE, old_price |-> NoPrice, drop |-> NoDrop]
    ELSE IF current_price <= lows[app_id].lowest_price /\ current_price > 0
    THEN [historical_low |-> [lows EXCEPT ![app_id] =
                                [lowest_price |-> current_price, date |-> date]],
          is_new_low |-> TRUE, old_price |-> lows[app_id].lowest_price,
          drop |-> [num |-> (lows[app_id].lowest_price - current_price) * 100,
                    den |-> lows[app_id].lowest_price]]
    ELSE [historical_low |-> lows, is_new_low |-> FALSE,
          old_price |-> NoPrice, drop |-> NoDrop]

\* variant: the new price is reported in place of the superseded low
check_historical_low_new_as_old(lows, app_id, current_price, date) ==
    IF app_id \notin DOMAIN lows
    THEN [historical_low |-> Upsert(lows, app_id,
                                [lowest_price |-> current_price, date |-> date]),
          is_new_low |-> TRUE, old_price |-> NoPrice, drop |-> NoDrop]
    ELSE IF current_price < lows[app_id].lowest_price /\ current_price > 0
    THEN [historical_low |-> [lows EXCEPT ![app_id] =
                                [lowest_price |-> current_price, date |-> date]],
          is_new_low |-> TRUE, old_price |-> current_price,
          drop |-> [num |-> (lows[app_id].lowest_price - current_price) * 100,
                    den |-> lows[app_id].lowest_price]]
    ELSE [historical_low |-> lows, is_new_low |-> FALSE,
          old_price |-> NoPrice, drop |-> NoDrop]

\* variant: the first record of a pair is not reported as a new low
check_historical_low_silent_baseline(lows, app_id, current_price, date) ==
    IF app_id \notin DOMAIN lows
    THEN [historical_low |-> Upsert(lows, app_id,
                                [lowest_price |-> current_price, date |-> date]),
          is_new_low |-> FALSE, old_price |-> NoPrice, drop |-> NoDrop]
    ELSE IF current_price < lows[app_id].lowest_price /\ current_price > 0
    THEN [historical_low |-> [lows EXCEPT ![app_id] =
                                [lowest_price |-> current_price, date |-> date]],
          is_new_low |-> TRUE, old_price |-> lows[app_id].lowest_price,
          drop |-> [num |-> (lows[app_id].lowest_price - current_price) * 100,
                    den |-> lows[app_id].lowest_price]]
    ELSE [historical_low |-> lows, is_new_low |-> FALSE,
          old_price |-> NoPrice, drop |-> NoDrop]

check_historical_low(lows, app_id, current_price, date) ==
    IF app_id \notin DOMAIN lows
    THEN [historical_low |-> Upsert(lows, app_id,
                                [lowest_price |-> current_price, date |-> date]),
          is_new_low |-> TRUE, old_price |-> NoPrice, drop |-> NoDrop]
    ELSE IF current_price < lows[app_id].lowest_price /\ current_price > 0
    THEN [historical_low |-> [lows EXCEPT ![app_id] =
                                [lowest_price |-> current_price, date |-> date]],
          is_new_low |-> TRUE, old_price |-> lows[app_id].lowest_price,
          drop |-> [num |-> (lows[app_id].lowest_price - current_price) * 100,
                    den |-> lows[app_id].lowest_price]]
    ELSE [historical_low |-> lows, is_new_low |-> FALSE,
          old_price |-> NoPrice, drop |-> NoDrop]

add_tracked_game(games, app_id, is_free) ==
    Upsert(games, app_id, [is_free |-> is_free])

record_price(history, app_id, price, date) ==
    Append(history, [app_id |-> app_id, price |-> price, timestamp |-> date])

record_new_low_event(events, app_id, price, date) ==
    Append(events, [app_id |-> app_id, price |-> price, date |-> date])

record_free_game_event(events, app_id, date) ==
    Append(events, [app_id |-> app_id, date |-> date])

is_sale_notified(rows, sale_name, year) ==
    \E n \in DOMAIN rows : rows[n].sale_name = sale_name /\ rows[n].year = year

\* variant: a plain INSERT into a table without the UNIQUE constraint
mark_sale_notified_plain_insert(rows, sale_name, year) ==
    Append(rows, [sale_name |-> sale_name, year |-> year])

\* INSERT OR IGNORE under UNIQUE(sale_name, year)
mark_sale_notified(rows, sale_name, year) ==
    IF \E n \in DOMAIN rows : rows[n].sale_name = sale_name /\ rows[n].year = year
    THEN rows
    ELSE Append(rows, [sale_name |-> sale_name, year |-> year])

\* ------------------------------------------------------------ calendar
\* A datetime is [ord, hour]: the proleptic Gregorian ordinal of its date
\* (datetime.toordinal) and the hour of the day; hour 0 is midnight exactly.
IsLeap(y) == (y % 4 = 0 /\ y % 100 # 0) \/ y % 400 = 0

\* days of the year before the first of month m
DaysBeforeMonth(y, m) ==
    <<0, 31, 59, 90, 120, 151, 181, 212, 243, 273, 304, 334>>[m]
    + (IF m > 2 /\ IsLeap(y) THEN 1 ELSE 0)

Ordinal(y, m, d) ==
    365 * (y - 1) + ((y - 1) \div 4) - ((y - 1) \div 100) + ((y - 1) \div 400)
    + DaysBeforeMonth(y, m) + d

DateTime(y, m, d, h) == [ord |-> Ordinal(y, m, d), hour |-> h]

Years == 2024..2027

YearOf(t) == CHOOSE y \in Years : Ordinal(y, 1, 1) <= t.ord /\ t.ord < Ordinal(y + 1, 1, 1)

Hours(t) == t.ord * 24 + t.hour

PlusHours(t, h) == [ord |-> (Hours(t) + h) \div 24, hour |-> (Hours(t) + h) % 24]

\* the loop period of check_sales_calendar
SalePeriodHours == 12

LookaheadDays == 7

\* the dict, in insertion order (spring, summer, autumn, winter, lunar new
\* year, halloween)
STEAM_SALES_CALENDAR ==
    << [name |-> "spring", month |-> 3, start_day |-> 14],
       [name |-> "summer", month |-> 6, start_day |-> 23],
       [name |-> "autumn", month |-> 11, start_day |-> 21],
       [name |-> "winter", month |-> 12, start_day |-> 20],
       [name |-> "lunar", month |-> 2, start_day |-> 1],
       [name |-> "halloween", month |-> 10, start_day |-> 28] >>

SaleNames == {STEAM_SALES_CALENDAR[n].name : n \in DOMAIN STEAM_SALES_CALENDAR}

\* variant: this year's occurrence is used even when it has passed
SaleDateThisYear(info, t) ==
    DateTime(YearOf(t), info.month, info.start_day, 0)

\* the occurrence the loop body settles on for one calendar entry
SaleDate(info, t) ==
    LET year == YearOf(t)
        sale_date == DateTime(year, info.month, info.start_day, 0)
    IN IF Hours(sale_date) < Hours(t)
       THEN DateTime(year + 1, info.month, info.start_day, 0)
       ELSE sale_date

\* (sale_date - now).days
DaysUntil(info, t) == (Hours(SaleDate(info, t)) - Hours(t)) \div 24

RECURSIVE UpcomingFrom(_, _, _)
UpcomingFrom(n, t, lookahead) ==
    IF n > Len(STEAM_SALES_CALENDAR) THEN <<>>
    ELSE LET info == STEAM_SALES_CALENDAR[n]
             days_until == DaysUntil(info, t)
         IN (IF 0 <= days_until /\ days_until <= lookahead
             THEN << [name |-> info.name, year |-> YearOf(SaleDate(info, t)),
                      days_until |-> days_until] >>
             ELSE <<>>) \o UpcomingFrom(n + 1, t, lookahead)

check_upcoming_sales(t) == UpcomingFrom(1, t, LookaheadDays)

\* ------------------------------------------------------------ initial state
\* on_ready runs init_db (CREATE TABLE IF NOT EXISTS): the registry and the
\* channel settings may hold rows written by commands of an earlier run, the
\* history and event tables are empty, no coroutine has started.
ChannelsOf(g) == {10 * g + 1}

Row(key, row) == [k \in {key} |-> row]

StartTracked ==
    { Row(570, [is_free |-> FALSE]),
      Row(570, [is_free |-> TRUE]),
      Upsert(Row(570, [is_free |-> FALSE]), 730, [is_free |-> FALSE]) }

StartSettings ==
    { <<>>,
      Upsert(Row(1, [channel_id |-> 11, enable_sale |-> TRUE]),
             2, [channel_id |-> 21, enable_sale |-> FALSE]),
      Upsert(Row(1, [channel_id |-> 11, enable_sale |-> TRUE]),
             2, [channel_id |-> 21, enable_sale |-> TRUE]) }

StartTimes == {DateTime(2024, 12, 11, 21), DateTime(2024, 12, 19, 9)}

\* before the first ready event, and once its handler has started both loops
NotReady == [events |-> 0, pending |-> 0, monitor_prices |-> 0,
             check_sales_calendar |-> 0]

Started == [events |-> 1, pending |-> 0, monitor_prices |-> 1,
            check_sales_calendar |-> 1]

MonIdle == [pc |-> "idle", games |-> <<>>, channels_info |-> <<>>, i |-> 0, j |-> 0,
            game_info |-> NoInfo, embed |-> NoEmbed]

SaleIdle == [pc |-> "idle", upcoming |-> <<>>, channels_info |-> <<>>, i |-> 0, j |-> 0]

TrkIdle == [pc |-> "idle", app_id |-> 0]

MonAwait == {"idle", "fetch", "send_free", "send_low", "sleep"}
SaleAwait == {"idle", "send_sale"}

Init ==
    /\ tracked_games \in StartTracked
    /\ server_settings \in StartSettings
    /\ historical_low = <<>>
    /\ price_history = <<>>
    /\ new_low_events = <<>>
    /\ free_game_events = <<>>
    /\ sale_notifications = <<>>
    /\ sent = <<>>
    /\ now \in StartTimes
    /\ mon = MonIdle
    /\ sale = SaleIdle
    /\ trk = TrkIdle
    /\ reply = NoReply
    /\ ready = Started
    /\ script = <<>>
    /\ nobs = 0
    /\ cycles = 0
    /\ checks = 0
    /\ budget = MaxEvents

\* ------------------------------------------------------------ monitor_prices
\* variant: the iteration ends after the entity at hand
NextEntityStopEarly(m) == MonIdle

\* leaving the body of  for app_id, name in games  for entity i: the next
\* entity's fetch, or the end of the iteration
NextEntity(m) ==
    IF m.i < Len(m.games)
    THEN [m EXCEPT !.pc = "fetch", !.i = m.i + 1, !.j = 0,
                   !.game_info = NoInfo, !.embed = NoEmbed]
    ELSE MonIdle

\* variant: the price part runs for every observation
AfterFreeAlwaysRecord(m) ==
    [m EXCEPT !.pc = "record_price", !.j = 0, !.embed = NoEmbed]

\* after the free-game part: the price part runs only under
\*   if not is_free and 'price_overview' in game_info
AfterFree(m) ==
    IF ~m.game_info.is_free /\ m.game_info.has_price
    THEN [m EXCEPT !.pc = "record_price", !.j = 0, !.embed = NoEmbed]
    ELSE [m EXCEPT !.pc = "sleep", !.j = 0, !.embed = NoEmbed]

\* the fan-out loop from position from on: bot.get_channel returns None for a
\* channel that is not in the client's cache, so the next channel.send is
\* awaited on entry from or, when the environment drops channels (a fault, if
\* budget allows one), on any later entry k, or on none (k past the end)
SendTargets(m, from, left) ==
    IF left > 0 THEN from..(Len(m.channels_info) + 1) ELSE {from}

\* what a step leaves of the fault budget: its sqlite or send outcome o, and
\* the channels dropped between position from and the next target k
Spend(o, from, k) == Charge(o) - (IF k > from THEN 1 ELSE 0)

MonApp == mon.games[mon.i]

\* the answer of get_steam_game_info to the poll: the next entry of the script
\* when there is one; otherwise anything, and None once MaxObs answers were given
Answers ==
    IF nobs < Len(script) THEN {script[nobs + 1]}
    ELSE IF script = <<>> /\ nobs < MaxObs THEN GameInfos
    ELSE {NoInfo}

\* variant: the cycle iterates the list whether or not a channel is configured
MonitorStartNoChannelCheck ==
    /\ mon.pc = "idle" /\ sale.pc \in SaleAwait
    /\ ready.monitor_prices > 0
    /\ IF script = <<>> THEN cycles < MaxCycles ELSE nobs < Len(script)
    /\ cycles' = cycles + 1
    /\ \E o \in Outcomes :
         /\ budget' = Charge(o)
         /\ LET games == SortedSeq(DOMAIN tracked_games)
                channels_info == get_all_notification_channels(server_settings)
            IN mon' = IF o # "ok" \/ games = <<>>
                      THEN MonIdle
                      ELSE [MonIdle EXCEPT !.pc = "fetch", !.games = games,
                                           !.channels_info = channels_info, !.i = 1]
    /\ UNCHANGED ready
    /\ UNCHANGED <<dbvars, sent, now, sale, trk, reply, script, nobs, checks>>

MonitorStart ==
    /\ mon.pc = "idle" /\ sale.pc \in SaleAwait
    /\ ready.monitor_prices > 0
    /\ IF script = <<>> THEN cycles < MaxCycles ELSE nobs < Len(script)
    /\ cycles' = cycles + 1
    /\ \E o \in Outcomes :
         /\ budget' = Charge(o)
         /\ LET games == SortedSeq(DOMAIN tracked_games)
                channels_info == get_all_notification_channels(server_settings)
            IN mon' = IF o # "ok" \/ channels_info = <<>> \/ games = <<>>
                      THEN MonIdle
                      ELSE [MonIdle EXCEPT !.pc = "fetch", !.games = games,
                                           !.channels_info = channels_info, !.i = 1]
    /\ UNCHANGED ready
    /\ UNCHANGED <<dbvars, sent, now, sale, trk, reply, script, nobs, checks>>

\* variant: the body runs on whatever the fetch returned
MonFetchReturnNoSkip ==
    /\ mon.pc = "fetch" /\ sale.pc \in SaleAwait
    /\ \E game_info \in Answers :
         mon' = [mon EXCEPT !.pc = "check_free", !.game_info = game_info]
    /\ nobs' = IF nobs < Len(script) \/ nobs < MaxObs THEN nobs + 1 ELSE nobs
    /\ UNCHANGED ready
    /\ UNCHANGED <<dbvars, sent, now, sale, trk, reply, script, cycles, checks, budget>>

MonFetchReturn ==
    /\ mon.pc = "fetch" /\ sale.pc \in SaleAwait
    /\ \E game_info \in Answers :
         mon' = IF ~game_info.success
                THEN NextEntity(mon)
                ELSE [mon EXCEPT !.pc = "check_free", !.game_info = game_info]
    /\ nobs' = IF nobs < Len(script) \/ nobs < MaxObs THEN nobs + 1 ELSE nobs
    /\ UNCHANGED ready
    /\ UNCHANGED <<dbvars, sent, now, sale, trk, reply, script, cycles, checks, budget>>

MonCheckFree ==
    /\ mon.pc = "check_free"
    /\ \E o \in Outcomes :
         /\ budget' = Charge(o)
         /\ LET r == check_free_game(tracked_games, MonApp, mon.game_info.is_free)
            IN CASE o = "raise" ->
                      /\ mon' = NextEntity(mon)
                      /\ UNCHANGED tracked_games
                 [] o = "fail" ->
                      /\ mon' = AfterFree(mon)
                      /\ UNCHANGED tracked_games
                 [] o = "ok" ->
                      /\ tracked_games' = r.tracked_games
                      /\ mon' = IF r.became_free
                                THEN [mon EXCEPT !.pc = "record_free"]
                                ELSE AfterFree(mon)
    /\ UNCHANGED ready
    /\ UNCHANGED <<historical_low, price_history, new_low_events, free_game_events,
                   server_settings, sale_notifications, sent, now, sale, trk,
                   reply, script, nobs, cycles, checks>>

MonRecordFree ==
    /\ mon.pc = "record_free"
    /\ \E o \in Outcomes :
         /\ free_game_events' = IF o = "ok"
                                THEN record_free_game_event(free_game_events, MonApp, cycles)
                                ELSE free_game_events
         /\ IF o = "raise"
            THEN mon' = NextEntity(mon) /\ budget' = Charge(o)
            ELSE \E k \in SendTargets(mon, 1, Charge(o)) :
                   /\ budget' = Spend(o, 1, k)
                   /\ mon' = IF k <= Len(mon.channels_info)
                             THEN [mon EXCEPT !.pc = "send_free", !.j = k,
                                              !.embed = FreeEmbed(MonApp)]
                             ELSE AfterFree(mon)
    /\ UNCHANGED ready
    /\ UNCHANGED <<tracked_games, historical_low, price_history, new_low_events,
                   server_settings, sale_notifications, sent, now, sale, trk,
                   reply, script, nobs, cycles, checks>>

MonSendFree ==
    /\ mon.pc = "send_free" /\ sale.pc \in SaleAwait
    /\ \E o \in SendOutcomes :
         IF o = "raise"
         THEN /\ mon' = NextEntity(mon)
              /\ budget' = Charge(o)
              /\ UNCHANGED sent
         ELSE /\ sent' = Append(sent, Delivered(mon.channels_info[mon.j].channel_id,
                                                mon.embed))
              /\ \E k \in SendTargets(mon, mon.j + 1, budget) :
                   /\ budget' = Spend(o, mon.j + 1, k)
                   /\ mon' = IF k <= Len(mon.channels_info)
                             THEN [mon EXCEPT !.j = k]
                             ELSE AfterFree(mon)
    /\ UNCHANGED ready
    /\ UNCHANGED <<dbvars, now, sale, trk, reply, script, nobs, cycles, checks>>

MonRecordPrice ==
    /\ mon.pc = "record_price"
    /\ \E o \in Outcomes :
         /\ budget' = Charge(o)
         /\ price_history' = IF o = "ok"
                             THEN record_price(price_history, MonApp, mon.game_info.final,
                                               cycles)
                             ELSE price_history
         /\ mon' = IF o = "raise" THEN NextEntity(mon)
                   ELSE [mon EXCEPT !.pc = "check_low"]
    /\ UNCHANGED ready
    /\ UNCHANGED <<tracked_games, historical_low, new_low_events, free_game_events,
                   server_settings, sale_notifications, sent, now, sale, trk,
                   reply, script, nobs, cycles, checks>>

\* variant: without the per-entity try, a raising call ends the cycle
MonCheckLowAborting ==
    /\ mon.pc = "check_low"
    /\ \E o \in Outcomes :
         /\ budget' = Charge(o)
         /\ LET r == check_historical_low(historical_low, MonApp,
                                          mon.game_info.final, cycles)
            IN CASE o = "raise" ->
                      /\ mon' = MonIdle
                      /\ UNCHANGED historical_low
                 [] o = "fail" ->
                      /\ mon' = [mon EXCEPT !.pc = "sleep"]
                      /\ UNCHANGED historical_low
                 [] o = "ok" ->
                      /\ historical_low' = r.historical_low
                      /\ mon' = IF r.is_new_low
                                THEN [mon EXCEPT !.pc = "record_low",
                                        !.embed = LowEmbed(MonApp, mon.game_info.final,
                                                           r.old_price, r.drop)]
                                ELSE [mon EXCEPT !.pc = "sleep"]
    /\ UNCHANGED ready
    /\ UNCHANGED <<tracked_games, price_history, new_low_events, free_game_events,
                   server_settings, sale_notifications, sent, now, sale, trk,
                   reply, script, nobs, cycles, checks>>

MonCheckLow ==
    /\ mon.pc = "check_low"
    /\ \E o \in Outcomes :
         /\ budget' = Charge(o)
         /\ LET r == check_historical_low(historical_low, MonApp,
                                          mon.game_info.final, cycles)
            IN CASE o = "raise" ->
                      /\ mon' = NextEntity(mon)
                      /\ UNCHANGED historical_low
                 [] o = "fail" ->
                      /\ mon' = [mon EXCEPT !.pc = "sleep"]
                      /\ UNCHANGED historical_low
                 [] o = "ok" ->
                      /\ historical_low' = r.historical_low
                      /\ mon' = IF r.is_new_low
                                THEN [mon EXCEPT !.pc = "record_low",
                                        !.embed = LowEmbed(MonApp, mon.game_info.final,
                                                           r.old_price, r.drop)]
                                ELSE [mon EXCEPT !.pc = "sleep"]
    /\ UNCHANGED ready
    /\ UNCHANGED <<tracked_games, price_history, new_low_events, free_game_events,
                   server_settings, sale_notifications, sent, now, sale, trk,
                   reply, script, nobs, cycles, checks>>

MonRecordLow ==
    /\ mon.pc = "record_low"
    /\ \E o \in Outcomes :
         /\ new_low_events' = IF o = "ok"
                              THEN record_new_low_event(new_low_events, MonApp,
                                                        mon.game_info.final, cycles)
                              ELSE new_low_events
         /\ IF o = "raise"
            THEN mon' = NextEntity(mon) /\ budget' = Charge(o)
            ELSE \E k \in SendTargets(mon, 1, Charge(o)) :
                   /\ budget' = Spend(o, 1, k)
                   /\ mon' = IF k <= Len(mon.channels_info)
                             THEN [mon EXCEPT !.pc = "send_low", !.j = k]
                             ELSE [mon EXCEPT !.pc = "sleep", !.embed = NoEmbed]
    /\ UNCHANGED ready
    /\ UNCHANGED <<tracked_games, historical_low, price_history, free_game_events,
                   server_settings, sale_notifications, sent, now, sale, trk,
                   reply, script, nobs, cycles, checks>>

MonSendLow ==
    /\ mon.pc = "send_low" /\ sale.pc \in SaleAwait
    /\ \E o \in SendOutcomes :
         IF o = "raise"
         THEN /\ mon' = NextEntity(mon)
              /\ budget' = Charge(o)
              /\ UNCHANGED sent
         ELSE /\ sent' = Append(sent, Delivered(mon.channels_info[mon.j].channel_id,
                                                mon.embed))
              /\ \E k \in SendTargets(mon, mon.j + 1, budget) :
                   /\ budget' = Spend(o, mon.j + 1, k)
                   /\ mon' = IF k <= Len(mon.channels_info)
                             THEN [mon EXCEPT !.j = k]
                             ELSE [mon EXCEPT !.pc = "sleep", !.j = 0, !.embed = NoEmbed]
    /\ UNCHANGED ready
    /\ UNCHANGED <<dbvars, now, sale, trk, reply, script, nobs, cycles, checks>>

MonSleep ==
    /\ mon.pc = "sleep" /\ sale.pc \in SaleAwait
    /\ mon' = NextEntity(mon)
    /\ UNCHANGED ready
    /\ UNCHANGED <<dbvars, sent, now, sale, trk, reply, script, nobs, cycles, checks, budget>>

MonitorStep ==
    \/ MonitorStart \/ MonFetchReturn \/ MonCheckFree \/ MonRecordFree
    \/ MonSendFree \/ MonRecordPrice \/ MonCheckLow \/ MonRecordLow
    \/ MonSendLow \/ MonSleep

\* ------------------------------------------------------------ check_sales_calendar
NextSale(c) ==
    IF c.i < Len(c.upcoming)
    THEN [c EXCEPT !.pc = "is_notified", !.i = c.i + 1, !.j = 0]
    ELSE SaleIdle

\* the promotion fan-out from position from on: entries with enable_sale false
\* are passed over
RECURSIVE NextEnabled(_, _)
NextEnabled(c, from) ==
    IF from > Len(c.channels_info) \/ c.channels_info[from].enable_sale
    THEN from
    ELSE NextEnabled(c, from + 1)

\* ... and so is any entry whose channel get_channel does not find
SaleTargets(c, from, left) ==
    IF left > 0
    THEN {k \in NextEnabled(c, from)..(Len(c.channels_info) + 1) :
             k <= Len(c.channels_info) => c.channels_info[k].enable_sale}
    ELSE {NextEnabled(c, from)}

DueSale == sale.upcoming[sale.i]

SaleStart ==
    /\ sale.pc = "idle" /\ mon.pc \in MonAwait
    /\ ready.check_sales_calendar > 0
    /\ checks < MaxChecks
    /\ checks' = checks + 1
    /\ now' = IF checks = 0 THEN now ELSE PlusHours(now, SalePeriodHours)
    /\ LET upcoming == check_upcoming_sales(now')
           channels_info == get_all_notification_channels(server_settings)
       IN IF upcoming = <<>>
          THEN sale' = SaleIdle /\ UNCHANGED budget
          ELSE \E o \in Outcomes :
                 /\ budget' = Charge(o)
                 /\ sale' = IF o # "ok" \/ channels_info = <<>>
                            THEN SaleIdle
                            ELSE [SaleIdle EXCEPT !.pc = "is_notified",
                                      !.upcoming = upcoming,
                                      !.channels_info = channels_info, !.i = 1]
    /\ UNCHANGED ready
    /\ UNCHANGED <<dbvars, sent, mon, trk, reply, script, nobs, cycles>>

SaleIsNotified ==
    /\ sale.pc = "is_notified"
    /\ \E o \in Outcomes :
         LET notified == IF o = "ok"
                         THEN is_sale_notified(sale_notifications,
                                               DueSale.name, DueSale.year)
                         ELSE FALSE
         IN IF o = "raise" THEN sale' = SaleIdle /\ budget' = Charge(o)
            ELSE IF notified THEN sale' = NextSale(sale) /\ budget' = Charge(o)
            ELSE \E k \in SaleTargets(sale, 1, Charge(o)) :
                   /\ budget' = Spend(o, NextEnabled(sale, 1), k)
                   /\ sale' = IF k <= Len(sale.channels_info)
                              THEN [sale EXCEPT !.pc = "send_sale", !.j = k]
                              ELSE [sale EXCEPT !.pc = "mark", !.j = 0]
    /\ UNCHANGED ready
    /\ UNCHANGED <<dbvars, sent, now, mon, trk, reply, script, nobs, cycles, checks>>

\* variant: a failing send is logged per channel and the fan-out, then the
\* mark, go on
SaleSendKeepGoing ==
    /\ sale.pc = "send_sale" /\ mon.pc \in MonAwait
    /\ \E o \in SendOutcomes :
         /\ sent' = IF o = "raise" THEN sent
                    ELSE Append(sent, Delivered(sale.channels_info[sale.j].channel_id,
                                                SaleEmbed(DueSale)))
         /\ \E k \in SaleTargets(sale, sale.j + 1, Charge(o)) :
              /\ budget' = Spend(o, NextEnabled(sale, sale.j + 1), k)
              /\ sale' = IF k <= Len(sale.channels_info)
                         THEN [sale EXCEPT !.j = k]
                         ELSE [sale EXCEPT !.pc = "mark", !.j = 0]
    /\ UNCHANGED ready
    /\ UNCHANGED <<dbvars, now, mon, trk, reply, script, nobs, cycles, checks>>

SaleSend ==
    /\ sale.pc = "send_sale" /\ mon.pc \in MonAwait
    /\ \E o \in SendOutcomes :
         IF o = "raise"
         THEN /\ sale' = SaleIdle
              /\ budget' = Charge(o)
              /\ UNCHANGED sent
         ELSE /\ sent' = Append(sent, Delivered(sale.channels_info[sale.j].channel_id,
                                                SaleEmbed(DueSale)))
              /\ \E k \in SaleTargets(sale, sale.j + 1, budget) :
                   /\ budget' = Spend(o, NextEnabled(sale, sale.j + 1), k)
                   /\ sale' = IF k <= Len(sale.channels_info)
                              THEN [sale EXCEPT !.j = k]
                              ELSE [sale EXCEPT !.pc = "mark", !.j = 0]
    /\ UNCHANGED ready
    /\ UNCHANGED <<dbvars, now, mon, trk, reply, script, nobs, cycles, checks>>

SaleMark ==
    /\ sale.pc = "mark"
    /\ \E o \in Outcomes :
         /\ budget' = Charge(o)
         /\ sale_notifications' = IF o = "ok"
                                  THEN mark_sale_notified(sale_notifications,
                                                          DueSale.name, DueSale.year)
                                  ELSE sale_notifications
         /\ sale' = IF o = "raise" THEN SaleIdle ELSE NextSale(sale)
    /\ UNCHANGED ready
    /\ UNCHANGED <<tracked_games, historical_low, price_history, new_low_events,
                   free_game_events, server_settings, sent, now, mon, trk, reply,
                   script, nobs, cycles, checks>>

SaleStep == SaleStart \/ SaleIsNotified \/ SaleSend \/ SaleMark

\* ------------------------------------------------------------ slash commands
\* variant: a handler may run while a task is between two of its awaits
AnyTime == TRUE

AllAtAwait == mon.pc \in MonAwait /\ sale.pc \in SaleAwait

\* A command spends one unit of the budget; a failing sqlite call inside it
\* spends another.
CmdOutcomes == IF budget > 1 THEN {"ok", "fail", "raise"} ELSE {"ok"}
CmdCharge(o) == IF o = "ok" THEN budget - 1 ELSE budget - 2

\* what track_game reads of the store's answer: success and is_free
TrackInfos == {g \in GameInfos : ~g.has_price}

SetupChannel ==
    /\ AllAtAwait /\ budget > 0
    /\ \E g \in Guilds, e \in BOOLEAN, o \in CmdOutcomes :
         \E c \in ChannelsOf(g) :
           /\ budget' = CmdCharge(o)
           /\ server_settings' = IF o = "ok"
                                 THEN set_notification_channel(server_settings, g, c, e)
                                 ELSE server_settings
           /\ reply' = Reply(IF o = "raise" THEN "failed" ELSE "configured", 0)
    /\ UNCHANGED ready
    /\ UNCHANGED <<tracked_games, historical_low, price_history, new_low_events,
                   free_game_events, sale_notifications, sent, now, mon, sale, trk,
                   script, nobs, cycles, checks>>

TrackStart ==
    /\ AllAtAwait /\ budget > 0 /\ trk.pc = "idle"
    /\ budget' = budget - 1
    /\ \E a \in AppIds : trk' = [pc |-> "fetch", app_id |-> a]
    /\ UNCHANGED ready
    /\ UNCHANGED <<dbvars, sent, now, mon, sale, reply, script, nobs, cycles, checks>>

TrackReturn ==
    /\ AllAtAwait /\ trk.pc = "fetch"
    /\ trk' = TrkIdle
    /\ \E game_info \in TrackInfos, o \in Outcomes :
         IF ~game_info.success
         THEN /\ o = "ok"
              /\ reply' = Reply("no_info", trk.app_id)
              /\ UNCHANGED <<tracked_games, budget>>
         ELSE /\ budget' = Charge(o)
              /\ tracked_games' = IF o = "ok"
                                  THEN add_tracked_game(tracked_games, trk.app_id,
                                                        game_info.is_free)
                                  ELSE tracked_games
              /\ reply' = Reply(IF o = "raise" THEN "failed" ELSE "tracked", trk.app_id)
    /\ UNCHANGED ready
    /\ UNCHANGED <<historical_low, price_history, new_low_events, free_game_events,
                   server_settings, sale_notifications, sent, now, mon, sale,
                   script, nobs, cycles, checks>>

Untrack ==
    /\ AllAtAwait /\ budget > 0
    /\ \E a \in AppIds, o \in CmdOutcomes :
         /\ budget' = CmdCharge(o)
         /\ IF o # "ok"
            THEN reply' = Reply("failed", a) /\ UNCHANGED tracked_games
            ELSE IF a \in DOMAIN tracked_games
            THEN /\ tracked_games' = DeleteRow(tracked_games, a)
                 /\ reply' = Reply("removed", a)
            ELSE reply' = Reply("not_found", a) /\ UNCHANGED tracked_games
    /\ UNCHANGED ready
    /\ UNCHANGED <<historical_low, price_history, new_low_events, free_game_events,
                   server_settings, sale_notifications, sent, now, mon, sale, trk,
                   script, nobs, cycles, checks>>

CommandStep == SetupChannel \/ TrackStart \/ TrackReturn \/ Untrack

\* ------------------------------------------------------------ on_ready
\* Task.start() of a tasks.loop object, and is_running()
is_running(running) == running > 0

\* variant: start() without the is_running() test
StartAnyway(running) == running + 1

\*   if not task.is_running(): task.start()
StartIfNotRunning(running) == IF is_running(running) THEN running ELSE running + 1

\* A ready event: the first one of the process, or a later one (the gateway
\* session was lost and re-established), which spends one unit of the budget.
\* The handler runs init_db() (CREATE TABLE IF NOT EXISTS: no table changes)
\* and then awaits bot.tree.sync().
OnReady ==
    /\ AllAtAwait
    /\ ready.events = 0 \/ budget > 0
    /\ LET left == IF ready.events = 0 THEN budget ELSE budget - 1
       IN \E o \in IF left > 0 THEN {"ok", "fail", "raise"} ELSE {"ok"} :
            /\ budget' = IF o = "ok" THEN left ELSE left - 1
            /\ ready' = [ready EXCEPT !.events = @ + 1,
                                      !.pending = IF o = "raise" THEN @ ELSE @ + 1]
    /\ UNCHANGED <<dbvars, sent, now, mon, sale, trk, reply, script, nobs, cycles, checks>>

\* bot.tree.sync() has returned or raised (caught): the rest of the handler
OnReadySynced ==
    /\ AllAtAwait
    /\ ready.pending > 0
    /\ ready' = [ready EXCEPT
                   !.pending = @ - 1,
                   !.monitor_prices = StartIfNotRunning(@),
                   !.check_sales_calendar = StartIfNotRunning(@)]
    /\ UNCHANGED <<dbvars, sent, now, mon, sale, trk, reply, script, nobs, cycles,
                   checks, budget>>

ReadyStep == OnReady \/ OnReadySynced

Next == MonitorStep \/ SaleStep \/ CommandStep \/ ReadyStep

\* the whole bot: the two periodic tasks and the command handlers
Spec == Init /\ [][Next]_vars

\* the process from its start: ready events and the two periodic tasks
InitReady ==
    /\ tracked_games = Row(570, [is_free |-> FALSE])
    /\ server_settings \in StartSettings \ {<<>>}
    /\ historical_low = <<>>
    /\ price_history = <<>>
    /\ new_low_events = <<>>
    /\ free_game_events = <<>>
    /\ sale_notifications = <<>>
    /\ sent = <<>>
    /\ now = DateTime(2024, 12, 19, 9)
    /\ mon = MonIdle
    /\ sale = SaleIdle
    /\ trk = TrkIdle
    /\ reply = NoReply
    /\ ready = NotReady
    /\ script = <<>>
    /\ nobs = 0
    /\ cycles = 0
    /\ checks = 0
    /\ budget = MaxEvents

ReadyNext == ReadyStep \/ MonitorStep \/ SaleStep

SpecReady == InitReady /\ [][ReadyNext]_vars

\* the price poll alone, and with the command handlers
InitPoll == Init /\ now = DateTime(2024, 12, 11, 21)

PollNext == MonitorStep \/ CommandStep

SpecMon == InitPoll /\ [][MonitorStep]_vars

SpecPoll == InitPoll /\ [][PollNext]_vars

\* the poll alone, scheduled: the event loop resumes monitor_prices whenever the
\* fetch, send or sleep it awaits has completed, steps without an await run to
\* the next await, and tasks.loop(hours=1) fires the next tick after a cycle
SpecMonFair == InitPoll /\ [][MonitorStep]_vars /\ WF_vars(MonitorStep)

\* the promotion check, with channel setup
InitSale == Init /\ tracked_games = Row(570, [is_free |-> FALSE])

SaleNext == SaleStep \/ SetupChannel

SpecSale == InitSale /\ [][SaleNext]_vars

\* the promotion check run at chosen times of day around the start dates of
\* three windows
CalDates == {DateTime(2024, 12, 20, 0), DateTime(2025, 2, 1, 0), DateTime(2025, 3, 14, 0)}

CalDayOffsets == {0 - 8, 0 - 7, 0 - 3, 0 - 1, 0, 1}

CalHours == {0, 9, 21}

CalTimes == {PlusHours(d, 24 * k + h) : d \in CalDates, k \in CalDayOffsets, h \in CalHours}

InitCal ==
    /\ tracked_games = Row(570, [is_free |-> FALSE])
    /\ server_settings = Upsert(Row(1, [channel_id |-> 11, enable_sale |-> TRUE]),
                                2, [channel_id |-> 21, enable_sale |-> FALSE])
    /\ historical_low = <<>>
    /\ price_history = <<>>
    /\ new_low_events = <<>>
    /\ free_game_events = <<>>
    /\ sale_notifications = <<>>
    /\ sent = <<>>
    /\ now \in CalTimes
    /\ mon = MonIdle
    /\ sale = SaleIdle
    /\ trk = TrkIdle
    /\ reply = NoReply
    /\ ready = Started
    /\ script = <<>>
    /\ nobs = 0
    /\ cycles = 0
    /\ checks = 0
    /\ budget = MaxEvents

SpecCal == InitCal /\ [][SaleStep]_vars

\* the price poll of one paid entity against a scripted store and a working
\* environment: one answer per cycle
PaidInfo(p) == [success |-> TRUE, is_free |-> FALSE, has_price |-> TRUE, final |-> p]
FreeInfo == [success |-> TRUE, is_free |-> TRUE, has_price |-> FALSE, final |-> NoPrice]

ScriptPrices == {0, 9000, 9500, 10000}

PriceScripts ==
    UNION {[1..n -> {PaidInfo(p) : p \in ScriptPrices}] : n \in 1..MaxPriceScript}

FreeScripts ==
    UNION {[1..n -> {FreeInfo, PaidInfo(10000)}] : n \in 1..MaxFreeScript}

InitScript ==
    /\ tracked_games = Row(570, [is_free |-> FALSE])
    /\ server_settings = Upsert(Row(1, [channel_id |-> 11, enable_sale |-> TRUE]),
                                2, [channel_id |-> 21, enable_sale |-> FALSE])
    /\ historical_low = <<>>
    /\ price_history = <<>>
    /\ new_low_events = <<>>
    /\ free_game_events = <<>>
    /\ sale_notifications = <<>>
    /\ sent = <<>>
    /\ now = DateTime(2024, 12, 11, 21)
    /\ mon = MonIdle
    /\ sale = SaleIdle
    /\ trk = TrkIdle
    /\ reply = NoReply
    /\ ready = Started
    /\ script \in PriceScripts \cup FreeScripts
    /\ nobs = 0
    /\ cycles = 0
    /\ checks = 0
    /\ budget = 0

SpecScript == InitScript /\ [][MonitorStep]_vars

\* ------------------------------------------------------------ properties
\* rows of a table that belong to one entity
RowsOf(table, app_id) == SelectSeq(table, LAMBDA row : row.app_id = app_id)

MinOf(S) == CHOOSE x \in S : \A y \in S : x <= y

\* C1: once a historical_low row exists for an entity (region 'tw'), no step
\* of the poll cycle, of the promotion check or of a command handler deletes
\* it or raises its lowest_price.
C1_LowNeverIncreases ==
    [][\A a \in DOMAIN historical_low :
          /\ a \in DOMAIN historical_low'
          /\ historical_low'[a].lowest_price <= historical_low[a].lowest_price]_vars

\* a row that was lowered after its baseline, and whose entity has since been
\* removed from the registry or has a promotion marked beside it
C1_Witness ==
    \E a \in DOMAIN historical_low :
        /\ Len(RowsOf(price_history, a)) = 2
        /\ RowsOf(price_history, a)[1].price > historical_low[a].lowest_price
        /\ RowsOf(price_history, a)[2].price = historical_low[a].lowest_price
        /\ (a \notin DOMAIN tracked_games \/ sale_notifications # <<>>)

\* the prices logged for one entity, in order
PricesOf(app_id) ==
    LET rows == RowsOf(price_history, app_id)
    IN [n \in 1..Len(rows) |-> rows[n].price]

\* no sqlite call or send has failed and no channel was dropped so far (in a
\* specification without command handlers)
NoFailureYet == budget = MaxEvents

\* the new-low embeds delivered for one entity
LowDeliveries(app_id) ==
    SelectSeq(sent, LAMBDA d : d.embed.kind = "low" /\ d.embed.app_id = app_id)

PastLowFanOut(a) ==
    ~(mon.pc \in {"check_low", "record_low", "send_low"} /\ MonApp = a)

C4_NoChangeAtOrAboveLow ==
    [][/\ (/\ mon.pc = "check_low"
           /\ MonApp \in DOMAIN historical_low
           /\ mon.game_info.final >= historical_low[MonApp].lowest_price)
          => /\ historical_low' = historical_low
             /\ new_low_events' = new_low_events
             /\ sent' = sent
             /\ mon'.pc \notin {"record_low", "send_low"}
       /\ new_low_events' # new_low_events => mon.pc = "record_low"
       /\ (\E a \in AppIds : LowDeliveries(a)' # LowDeliveries(a)) => mon.pc = "send_low"
       /\ (mon'.pc = "send_low" /\ mon.pc # "send_low") => mon.pc = "record_low"
       /\ mon'.pc = "record_low"
          => /\ mon.pc = "check_low"
             /\ \/ MonApp \notin DOMAIN historical_low
                \/ mon.game_info.final < historical_low[MonApp].lowest_price]_vars

\* a price equal to the low stored in an earlier cycle has been processed
C4_Witness ==
    /\ mon.pc = "sleep" /\ NoFailureYet
    /\ MonApp \in DOMAIN historical_low
    /\ mon.game_info.final = historical_low[MonApp].lowest_price
    /\ historical_low[MonApp].date < cycles
    /\ Len(PricesOf(MonApp)) = 2
    /\ Len(RowsOf(new_low_events, MonApp)) = 1

\* the stored low before the n-th logged price of a price list
LowBefore(P, n) ==
    MinOf({P[1]} \cup {P[k] : k \in {m \in 2..(n - 1) : P[m] > 0}})

PriceScenario == << PaidInfo(10000), PaidInfo(9000), PaidInfo(9500) >>

\* C5: with a working environment, every observation with 0 < price < stored
\* low leaves exactly one new_low_events row for it and one notification per
\* configured channel carrying the superseded low and the drop
\* (low - price) * 100 / low, and the row holds that price until a lower one
\* comes; the prices 100.00, 90.00, 95.00 give a baseline at 100.00, one new
\* low 100.00 -> 90.00 with a drop of 10 percent, then nothing, and a final
\* stored low of 90.00.
C5_NewLowUpdatesAndEmitsOnce ==
    mon.pc = "idle" =>
        LET rows == RowsOf(price_history, 570)
            P == PricesOf(570)
            channels == get_all_notification_channels(server_settings)
        IN /\ \A n \in 2..Len(P) :
                LET L == LowBefore(P, n)
                    embed == LowEmbed(570, P[n], L,
                                      [num |-> (L - P[n]) * 100, den |-> L])
                    deliveries == SelectSeq(sent, LAMBDA d : d.embed = embed)
                IN (0 < P[n] /\ P[n] < L) =>
                      /\ Len(SelectSeq(new_low_events,
                               LAMBDA e : e.date = rows[n].timestamp)) = 1
                      /\ Len(SelectSeq(new_low_events,
                               LAMBDA e : e = [app_id |-> 570, price |-> P[n],
                                               date |-> rows[n].timestamp])) = 1
                      /\ Len(deliveries) = Len(channels)
                      /\ \A k \in DOMAIN deliveries :
                           deliveries[k].channel_id = channels[k].channel_id
                      /\ historical_low[570].lowest_price <= P[n]
                      /\ n = Len(P) => historical_low[570] =
                           [lowest_price |-> P[n], date |-> rows[n].timestamp]
           /\ (script = PriceScenario /\ nobs = 3) =>
                /\ historical_low[570] = [lowest_price |-> 9000, date |-> 2]
                /\ LET lows == SelectSeq(LowDeliveries(570),
                                         LAMBDA d : d.embed.old_price # NoPrice)
                   IN /\ Len(lows) = Len(channels)
                      /\ \A k \in DOMAIN lows :
                           /\ lows[k].embed.price = 9000
                           /\ lows[k].embed.old_price = 10000
                           /\ lows[k].embed.drop.num = 10 * lows[k].embed.drop.den
                /\ \A e \in {new_low_events[k] : k \in DOMAIN new_low_events} :
                     e.date # 3
                /\ Len(SelectSeq(new_low_events, LAMBDA e : e.date = 2)) = 1

\* the three observations of the scenario have been processed
C5_Witness ==
    /\ mon.pc = "idle" /\ script = PriceScenario /\ nobs = 3
    /\ PricesOf(570) = << 10000, 9000, 9500 >>
    /\ historical_low[570].lowest_price = 9000

\* the cycles in which the scripted store's answer starts a run of free
\* observations
RunStarts ==
    {n \in DOMAIN script : script[n].is_free /\ (n = 1 \/ ~script[n - 1].is_free)}

\* C6 as stated: after the cycles of a scripted sequence of free / paid
\* observations for an entity stored as paid, free_game_events holds exactly
\* one row per maximal run of free observations, dated at the first
\* observation of the run.
C6_OneFreeEventPerRun ==
    (mon.pc = "idle" /\ script \in FreeScripts /\ nobs = Len(script)) =>
        /\ Len(free_game_events) = Cardinality(RunStarts)
        /\ {free_game_events[k].date : k \in DOMAIN free_game_events} = RunStarts

\* C7 as stated: when check_free_game processes a paid observation for an
\* entity stored as free, the stored status is false afterwards.
C7_PaidObservationClearsFreeStatus ==
    [][(/\ mon.pc = "check_free"
        /\ ~mon.game_info.is_free
        /\ MonApp \in DOMAIN tracked_games
        /\ tracked_games[MonApp].is_free)
       => ~tracked_games'[MonApp].is_free]_vars

\* C8 as stated: when check_free_game processes a free observation for an
\* entity without a tracked_games row and the call succeeds, the free
\* transition is reported (the cycle goes on to record and announce it).
C8_UnknownEntityEmitsFreeEvent ==
    [][(/\ mon.pc = "check_free"
        /\ MonApp \notin DOMAIN tracked_games
        /\ mon.game_info.is_free
        /\ budget' = budget)
       => mon'.pc = "record_free"]_vars

\* C8 amended: a free observation for an entity without a tracked_games row
\* emits no free transition and writes nothing; a transition is reported only
\* for an entity that has a row with stored status paid, whose status is then
\* stored as free, and free_game_events rows are appended only for a reported
\* transition.
C8_UnknownEntityEmitsNothing ==
    [][/\ (mon.pc = "check_free" /\ MonApp \notin DOMAIN tracked_games)
          => /\ tracked_games' = tracked_games
             /\ free_game_events' = free_game_events
             /\ sent' = sent
             /\ mon'.pc # "record_free"
       /\ mon'.pc = "record_free"
          => /\ mon.pc = "check_free"
             /\ mon.game_info.is_free
             /\ MonApp \in DOMAIN tracked_games
             /\ ~tracked_games[MonApp].is_free
             /\ tracked_games'[MonApp].is_free
       /\ free_game_events' # free_game_events => mon.pc = "record_free"
       /\ (mon'.pc = "send_free" /\ mon.pc # "send_free") => mon.pc = "record_free"]_vars

\* the poll is about to process a free observation for an entity that was
\* removed after the cycle read its list
C8_Witness ==
    /\ mon.pc = "check_free"
    /\ MonApp \notin DOMAIN tracked_games
    /\ mon.game_info.is_free
    /\ reply = Reply("removed", MonApp)

\* the rows of sale_notifications for one (sale_name, year)
NotifiedRows(sale_name, year) ==
    SelectSeq(sale_notifications,
              LAMBDA row : row.sale_name = sale_name /\ row.year = year)

\* C9: mark_sale_notified is idempotent. In every reachable state the table
\* holds at most one row per (sale_name, year), and marking any pair twice
\* gives the table that marking it once gives, in which is_sale_notified is
\* true; a call of the promotion check that reaches the database leaves the
\* pair's row present, leaves the table as it is when the row was there
\* already, and returns to the loop, which goes on to the next due window.
C9_MarkIdempotent ==
    /\ [](\A n \in SaleNames, y \in Years :
            LET once == mark_sale_notified(sale_notifications, n, y)
                twice == mark_sale_notified(once, n, y)
            IN /\ Len(NotifiedRows(n, y)) <= 1
               /\ twice = once
               /\ is_sale_notified(once, n, y)
               /\ is_sale_notified(twice, n, y))
    /\ [][(sale.pc = "mark" /\ budget' = budget)
          => /\ is_sale_notified(sale_notifications', DueSale.name, DueSale.year)
             /\ is_sale_notified(sale_notifications, DueSale.name, DueSale.year)
                => sale_notifications' = sale_notifications
             /\ sale' = NextSale(sale)]_vars

\* the promotion check is marking a window that an earlier check has marked
C9_Witness ==
    /\ sale.pc = "mark"
    /\ checks = 2
    /\ is_sale_notified(sale_notifications, DueSale.name, DueSale.year)

\* the promotion notifications delivered to one channel for one window
SaleDeliveries(channel_id, sale_name, year) ==
    SelectSeq(sent, LAMBDA d : /\ d.channel_id = channel_id
                               /\ d.embed.kind = "sale"
                               /\ d.embed.sale_name = sale_name
                               /\ d.embed.year = year)

\* C10 as stated: over any sequence of promotion checks, failures of sends
\* and of persistence calls included, each channel is sent at most one
\* notification per (promotion name, year).
C10_AtMostOncePerChannel ==
    \A g \in Guilds, n \in SaleNames, y \in Years :
        \A c \in ChannelsOf(g) : Len(SaleDeliveries(c, n, y)) <= 1

\* C11: in the promotion check, sends for a due window start only from the
\* is_sale_notified consultation; the (name, year) row is written only by the
\* mark step, which is entered only once the fan-out has ended without a
\* failing send; a send that fails ends the check with the row unwritten; and
\* a later check that finds the window due and unmarked sends again, starting
\* with the first enabled channel.
C11_MarkOnlyAfterDispatch ==
    [][/\ (sale'.pc = "send_sale" /\ sale.pc # "send_sale") => sale.pc = "is_notified"
       /\ (\E g \in Guilds, n \in SaleNames, y \in Years : \E c \in ChannelsOf(g) :
              SaleDeliveries(c, n, y)' # SaleDeliveries(c, n, y))
          => sale.pc = "send_sale"
       /\ sale_notifications' # sale_notifications
          => /\ sale.pc = "mark"
             /\ sale_notifications' =
                  Append(sale_notifications,
                         [sale_name |-> DueSale.name, year |-> DueSale.year])
       /\ (sale'.pc = "mark" /\ sale.pc # "mark")
          => /\ sale.pc \in {"is_notified", "send_sale"}
             /\ sale.pc = "send_sale" => sent' # sent
       /\ (sale.pc = "send_sale" /\ sale' # sale /\ sent' = sent)
          => sale' = SaleIdle /\ sale_notifications' = sale_notifications
       /\ (/\ sale.pc = "is_notified" /\ budget' = budget
           /\ ~is_sale_notified(sale_notifications, DueSale.name, DueSale.year)
           /\ NextEnabled(sale, 1) <= Len(sale.channels_info))
          => sale'.pc = "send_sale" /\ sale'.j = NextEnabled(sale, 1)]_vars

\* the send to the second channel failed in the first check, no row was
\* written, and the second check is sending the still-due window again
C11_Witness ==
    /\ checks = 2 /\ now = DateTime(2024, 12, 19, 21)
    /\ sale.pc = "send_sale" /\ sale.j = 1
    /\ DueSale.name = "winter"
    /\ Len(sale.channels_info) = 2 /\ sale.channels_info[2].enable_sale
    /\ sent = << Delivered(11, SaleEmbed(DueSale)) >>
    /\ sale_notifications = <<>>

\* the calendar entries check_upcoming_sales returns at time t under a
\* lookahead, by name
DueNames(t, lookahead) ==
    LET upcoming == UpcomingFrom(1, t, lookahead)
    IN {upcoming[n].name : n \in DOMAIN upcoming}

DueEntry(t, name) ==
    LET upcoming == check_upcoming_sales(t)
    IN upcoming[CHOOSE n \in DOMAIN upcoming : upcoming[n].name = name]

\* the calendar days from the date of t to the next start date of a window
\* that is not before that date
DaysToStart(info, t) ==
    LET this == Ordinal(YearOf(t), info.month, info.start_day)
    IN IF this >= t.ord THEN this - t.ord
       ELSE Ordinal(YearOf(t) + 1, info.month, info.start_day) - t.ord

CalendarEntries == {STEAM_SALES_CALENDAR[n] : n \in DOMAIN STEAM_SALES_CALENDAR}

\* C12 as stated: whenever the promotion check has run at a time of day on
\* the start date of a window, check_upcoming_sales reports that window due
\* with days_until = 0.
C12_TodayIsDue ==
    checks >= 1 =>
        \A info \in CalendarEntries :
            DaysToStart(info, now) = 0 =>
                /\ info.name \in DueNames(now, LookaheadDays)
                /\ DueEntry(now, info.name).days_until = 0

\* C13 as stated: whenever the promotion check has run at a time of day on
\* the date 3 days before a window's start date, the window is reported with
\* days_until = 3 under the 7-day lookahead and not reported under a 2-day
\* lookahead; in general a window is reported iff 0 <= days to its start <=
\* lookahead.
C13_ThreeDaysBefore ==
    checks >= 1 =>
        \A info \in CalendarEntries :
            /\ DaysToStart(info, now) = 3 =>
                 /\ info.name \in DueNames(now, LookaheadDays)
                 /\ DueEntry(now, info.name).days_until = 3
                 /\ info.name \notin DueNames(now, 2)
            /\ \A lookahead \in {2, LookaheadDays} :
                 info.name \in DueNames(now, lookahead)
                    <=> DaysToStart(info, now) <= lookahead

\* C14: whenever the promotion check has run, for every calendar entry the
\* occurrence it settles on is next year's when this year's is strictly
\* before now and this year's otherwise, is never before now, and its
\* days_until is >= 0; every returned entry carries that occurrence's year
\* and a days_until between 0 and the lookahead.
C14_NeverNegative ==
    checks >= 1 =>
        /\ \A info \in CalendarEntries :
             LET year == YearOf(now)
                 this == DateTime(year, info.month, info.start_day, 0)
                 next == DateTime(year + 1, info.month, info.start_day, 0)
                 sale_date == SaleDate(info, now)
             IN /\ Hours(this) < Hours(now) => sale_date = next
                /\ Hours(this) >= Hours(now) => sale_date = this
                /\ Hours(sale_date) >= Hours(now)
                /\ DaysUntil(info, now) >= 0
                /\ info.name \in DueNames(now, LookaheadDays) =>
                     /\ DueEntry(now, info.name).days_until = DaysUntil(info, now)
                     /\ DueEntry(now, info.name).year = YearOf(sale_date)
        /\ \A n \in DOMAIN check_upcoming_sales(now) :
             /\ check_upcoming_sales(now)[n].days_until >= 0
             /\ check_upcoming_sales(now)[n].days_until <= LookaheadDays

\* the check has run at a time when one window's occurrence of this year has
\* passed, and is moved to next year, while another window is returned as due
C14_Witness ==
    /\ checks >= 1
    /\ sale.pc = "is_notified"
    /\ \E info \in CalendarEntries :
         /\ Ordinal(YearOf(now), info.month, info.start_day) < now.ord
         /\ YearOf(SaleDate(info, now)) = YearOf(now) + 1
    /\ \E info \in CalendarEntries :
         /\ info.name \in DueNames(now, LookaheadDays)
         /\ sale.upcoming = << DueEntry(now, info.name) >>

\* the positions of the poll inside the free-game part of the loop body
FreePart == {"check_free", "record_free", "send_free"}

\* C15 as stated: once the poll has processed an observation of an entity
\* without a failure, price_history holds a row for that entity and cycle.
C15_EveryObservationLogged ==
    (NoFailureYet /\ mon.pc = "sleep" /\ mon.game_info.success) =>
        \E n \in DOMAIN price_history :
            price_history[n].app_id = MonApp /\ price_history[n].timestamp = cycles

\* C15 amended: the poll appends one price_history row for an observation
\* exactly when it is paid and carries price data, before and independently
\* of the new-low check; a free observation or one without price data
\* appends nothing, and nothing else appends to the log.
C15_PaidPricedObservationLogged ==
    [][/\ price_history' # price_history
          => /\ mon.pc = "record_price"
             /\ price_history' =
                  Append(price_history, [app_id |-> MonApp,
                                         price |-> mon.game_info.final,
                                         timestamp |-> cycles])
       /\ (mon.pc = "record_price" /\ budget' = budget)
          => price_history' # price_history /\ mon'.pc = "check_low"
       /\ mon'.pc = "record_price"
          => /\ mon.pc \in FreePart
             /\ ~mon.game_info.is_free /\ mon.game_info.has_price
       /\ (mon.pc \in FreePart /\ mon'.pc \notin FreePart /\ budget' = budget)
          => (mon'.pc = "record_price"
                <=> ~mon.game_info.is_free /\ mon.game_info.has_price)]_vars

\* a free observation of an entity whose price was logged in the cycle
\* before has been processed, and nothing was logged for it
C15_Witness ==
    /\ NoFailureYet /\ mon.pc = "sleep" /\ cycles = 2
    /\ mon.game_info.success /\ mon.game_info.is_free
    /\ Len(RowsOf(price_history, MonApp)) = 1
    /\ RowsOf(price_history, MonApp)[1].timestamp = 1

\* C16 as stated: a new_low_events or free_game_events row exists only for a
\* committed update of the stored low or free-status, and once the poll is
\* past recording, every stored low has the new_low_events row of the
\* observation that set it.
C16_NoPartialMutation ==
    /\ \A n \in DOMAIN new_low_events :
         LET e == new_low_events[n]
         IN /\ e.app_id \in DOMAIN historical_low
            /\ historical_low[e.app_id].lowest_price <= e.price
    /\ \A n \in DOMAIN free_game_events :
         LET e == free_game_events[n]
         IN e.app_id \in DOMAIN tracked_games => tracked_games[e.app_id].is_free
    /\ \A a \in DOMAIN historical_low :
         ~(mon.pc = "record_low" /\ MonApp = a) =>
            \E n \in DOMAIN new_low_events :
               new_low_events[n] = [app_id |-> a,
                                    price |-> historical_low[a].lowest_price,
                                    date |-> historical_low[a].date]

\* C17 as stated, for a failing send: when the send of a new-low or free
\* notification to one channel fails and later channels remain in the list,
\* the fan-out goes on with a later channel.
C17_FanOutSurvivesFailedSend ==
    [][(/\ mon.pc \in {"send_free", "send_low"}
        /\ mon' # mon /\ sent' = sent
        /\ mon.j < Len(mon.channels_info))
       => mon'.pc = mon.pc /\ mon'.j > mon.j]_vars

\* the step in which track_game, back from its fetch, calls add_tracked_game
TrackReturnStep == trk.pc = "fetch" /\ trk'.pc = "idle"

\* the step of an untrack_game command for entity a
UntrackStep(a) ==
    /\ UNCHANGED <<mon, sale, trk, cycles, checks>>
    /\ budget' < budget
    /\ reply'.app_id = a

\* C18: track_game leaves historical_low, price_history and the event tables
\* as they are and, when its write commits, leaves tracked_games with a row
\* for the entity and every other row untouched, whether or not the entity
\* was tracked before; untrack_game, when its database calls succeed,
\* answers "removed" and deletes exactly the entity's row iff that row
\* existed, and answers "not found" and changes nothing otherwise; it never
\* touches another table.
C18_RegistryFrame ==
    [][/\ TrackReturnStep
          => /\ UNCHANGED <<historical_low, price_history, new_low_events,
                            free_game_events, server_settings, sale_notifications>>
             /\ DOMAIN tracked_games' \in {DOMAIN tracked_games,
                                           DOMAIN tracked_games \cup {trk.app_id}}
             /\ \A k \in DOMAIN tracked_games \ {trk.app_id} :
                  tracked_games'[k] = tracked_games[k]
             /\ (reply'.kind = "tracked" /\ budget' = budget)
                => trk.app_id \in DOMAIN tracked_games'
             /\ reply'.kind # "tracked" => tracked_games' = tracked_games
       /\ \A a \in AppIds :
            UntrackStep(a)
            => /\ UNCHANGED <<historical_low, price_history, new_low_events,
                              free_game_events, server_settings, sale_notifications>>
               /\ reply'.kind \in {"removed", "not_found", "failed"}
               /\ reply'.kind = "removed"
                  <=> (a \in DOMAIN tracked_games /\ budget' = budget - 1)
               /\ reply'.kind = "not_found"
                  <=> (a \notin DOMAIN tracked_games /\ budget' = budget - 1)
               /\ reply'.kind = "removed"
                  => /\ DOMAIN tracked_games' = DOMAIN tracked_games \ {a}
                     /\ \A k \in DOMAIN tracked_games' :
                          tracked_games'[k] = tracked_games[k]
               /\ reply'.kind # "removed" => tracked_games' = tracked_games]_vars

\* an entity with a stored low and a logged price has been tracked again
C18_Witness ==
    \E a \in DOMAIN tracked_games :
        /\ reply = Reply("tracked", a)
        /\ a \in DOMAIN historical_low
        /\ RowsOf(price_history, a) # <<>>
        /\ RowsOf(new_low_events, a) # <<>>
        /\ Cardinality(DOMAIN tracked_games) = 2

\* C19: a running poll cycle keeps the list it read at its start and walks
\* it one entity at a time: whatever a step does (a fetch that returns
\* nothing, a failing sqlite call, a failing send), it stays with the current
\* entity or goes on to the fetch of the next one, and the cycle ends only
\* from its last entity.
C19_FailureDoesNotAbortCycle ==
    [][mon.pc # "idle"
       => \/ /\ mon'.pc # "idle"
             /\ mon'.games = mon.games
             /\ mon'.i \in {mon.i, mon.i + 1}
             /\ mon'.i = mon.i + 1 => mon'.pc = "fetch"
          \/ /\ mon' = MonIdle
             /\ mon.i = Len(mon.games)]_vars

\* check_historical_low failed for the first entity of the list, after its
\* price was logged, and the second entity is being processed in that cycle
C19_Witness ==
    /\ cycles = 1 /\ mon.i = 2 /\ mon.pc = "check_free"
    /\ budget < MaxEvents
    /\ RowsOf(price_history, mon.games[1]) # <<>>
    /\ mon.games[1] \notin DOMAIN historical_low

\* the positions of the poll at which no entity is being processed
NotProcessing == {"idle", "fetch"}

\* C20: when the fetch for an entity returns nothing, the poll goes straight
\* to the next entity's fetch (or ends after the last one) with every table
\* and the delivered notifications unchanged; an entity's processing starts
\* only from a fetch that returned data, and the tables and notifications
\* change only while an entity is being processed.
C20_EmptyFetchSkipsEntity ==
    [][/\ (mon.pc = "fetch" /\ mon' # mon /\ mon'.pc # "check_free")
          => /\ mon' = NextEntity(mon)
             /\ UNCHANGED <<dbvars, sent>>
       /\ (mon'.pc \notin NotProcessing /\ mon.pc \in NotProcessing)
          => /\ mon.pc = "fetch" /\ mon'.pc = "check_free"
             /\ mon'.game_info.success
             /\ mon'.i = mon.i /\ mon'.games = mon.games
       /\ mon.pc \in NotProcessing => UNCHANGED <<dbvars, sent>>]_vars

\* the store has stopped answering: the fetch for the first entity of the
\* second cycle returned nothing and the poll is fetching the second entity
C20_Witness ==
    /\ cycles = 2 /\ nobs = MaxObs
    /\ mon.pc = "fetch" /\ mon.i = 2
    /\ Len(price_history) = 2
    /\ \A n \in DOMAIN price_history : price_history[n].timestamp = 1

\* C21 as stated: within a poll cycle, the fetch of the next entity is
\* started only from the rate-limit pause that follows the entity before it.
C21_DelayBetweenFetches ==
    [][(mon.pc # "idle" /\ mon'.pc = "fetch" /\ mon'.i = mon.i + 1)
       => mon.pc = "sleep"]_vars

\* C22: under every interleaving of the poll cycle, the promotion check and
\* the command handlers, historical_low is written only by the step in which
\* check_historical_low runs, and what is written is computed from the table
\* as it is at that very step (no write can fall between its read and its
\* write); while a task is between two of its awaits, no other coroutine
\* takes a step.
C22_ReadAndWriteOfLowAreOneStep ==
    [][/\ historical_low' # historical_low
          => /\ mon.pc = "check_low"
             /\ historical_low' =
                  check_historical_low(historical_low, MonApp,
                                       mon.game_info.final, cycles).historical_low
       /\ mon.pc \notin MonAwait
          => /\ mon' # mon
             /\ UNCHANGED <<sale, trk, reply, server_settings, sale_notifications,
                            now, checks>>
       /\ sale.pc \notin SaleAwait
          => /\ sale' # sale
             /\ UNCHANGED <<mon, trk, reply, tracked_games, historical_low,
                            price_history, new_low_events, free_game_events,
                            server_settings, cycles>>]_vars

\* the poll is about to compare a price with the low stored in an earlier
\* cycle while the promotion check is suspended in a send and a track command
\* is waiting for its fetch
C22_Witness ==
    /\ mon.pc = "check_low"
    /\ MonApp \in DOMAIN historical_low
    /\ mon.game_info.final < historical_low[MonApp].lowest_price
    /\ sale.pc = "send_sale"
    /\ trk.pc = "fetch" /\ trk.app_id = MonApp

\* the shape of a poll cycle: it starts at the first entity of the list read
\* at the tick, the fetch of an entity is followed by its processing or (empty
\* answer) by the next entity, processing stays on the entity until the cycle
\* moves to the fetch of the next one, and the cycle ends only from the last
\* entity of the list
CycleShape ==
    /\ (mon.pc = "idle" /\ mon'.pc # "idle")
       => /\ mon'.pc = "fetch" /\ mon'.i = 1
          /\ mon'.games = SortedSeq(DOMAIN tracked_games)
    /\ (mon.pc # "idle" /\ mon'.pc # "idle")
       => /\ mon'.games = mon.games
          /\ \/ mon' = mon
             \/ mon'.i = mon.i /\ mon'.pc # "fetch"
             \/ mon'.i = mon.i + 1 /\ mon'.pc = "fetch"
    /\ mon.pc = "fetch" => mon'.pc \in {"fetch", "check_free", "idle"}
    /\ (mon.pc # "idle" /\ mon'.pc = "idle") => mon.i = Len(mon.games)

\* a tick whose reads succeed, with a non-empty list
TickWithEntities ==
    /\ mon.pc = "idle" /\ cycles' = cycles + 1 /\ budget' = budget
    /\ tracked_games # <<>>

\* C23 as stated: every started cycle follows Idle -> Fetching -> Processing ->
\* Idle, visits each entity of the list read at the tick exactly once and
\* returns to Idle, at every tick whatever the channel configuration.
C23_EveryTickVisitsEveryEntity ==
    /\ [][CycleShape /\ (TickWithEntities => mon'.pc = "fetch")]_vars
    /\ (mon.pc # "idle") ~> (mon.pc = "idle")

\* C23, amended: the same, at every tick at which at least one notification
\* channel is configured; a tick with no channel configured goes back to Idle
\* without visiting any entity.
C23_TickWithChannelVisitsEveryEntity ==
    /\ [][/\ CycleShape
          /\ TickWithEntities
             => IF get_all_notification_channels(server_settings) # <<>>
                THEN mon'.pc = "fetch"
                ELSE mon' = MonIdle /\ nobs' = nobs]_vars
    /\ (mon.pc # "idle") ~> (mon.pc = "idle")

\* the first cycle has fetched both entities of its list and is back at Idle
C23_Witness ==
    /\ cycles = 1 /\ mon.pc = "idle" /\ nobs = 2
    /\ Cardinality(DOMAIN tracked_games) = 2

\* C24: a tick at which no notification channel is configured fetches no
\* entity and changes no table and sends nothing; every fetch and every write
\* of the poll cycle (price log, baseline or new low, free-status, event rows)
\* belongs to a cycle whose tick read at least one channel.
C24_NoChannelTickIsInert ==
    [][/\ (mon.pc = "idle" /\ cycles' = cycles + 1
           /\ get_all_notification_channels(server_settings) = <<>>)
          => /\ mon' = MonIdle
             /\ UNCHANGED <<dbvars, sent, nobs>>
       /\ mon.pc # "idle" => mon.channels_info # <<>>
       /\ (nobs' # nobs
           \/ <<historical_low, price_history, new_low_events, free_game_events>>'
                # <<historical_low, price_history, new_low_events, free_game_events>>)
          => mon.pc # "idle" /\ mon.channels_info # <<>>]_vars

\* the first tick found no channel and did nothing; a channel was configured
\* afterwards, and the second tick is fetching the first entity with every
\* table of the poll still empty
C24_Witness ==
    /\ cycles = 2 /\ nobs = 0
    /\ mon.pc = "fetch" /\ mon.i = 1
    /\ reply.kind = "configured"
    /\ historical_low = <<>> /\ price_history = <<>>
    /\ new_low_events = <<>> /\ free_game_events = <<>>
    /\ sent = <<>>

\* C25 as stated: re-registering a tracked entity, however it interleaves
\* with the poll, never yields a second free-transition event within one run of
\* free observations by the poll: no entity has free_game_events rows from two
\* consecutive cycles (each cycle observes the entity once, and a row is
\* written only for a free observation).
C25_TrackKeepsOneFreeEventPerRun ==
    \A m, n \in DOMAIN free_game_events :
        free_game_events[m].app_id = free_game_events[n].app_id
            => free_game_events[n].date # free_game_events[m].date + 1

\* the positions of the poll inside the price part of the loop body
PricePart == {"record_price", "check_low", "record_low", "send_low"}

\* C26 as stated: the poll changes historical_low, price_history and
\* new_low_events and sends new-low notifications only for an entity that is
\* in tracked_games when it is processed; for an entity removed after the
\* list was read, the price part changes nothing and sends nothing.
C26_RemovedEntityIsSkipped ==
    [][(mon.pc \in PricePart /\ MonApp \notin DOMAIN tracked_games)
       => UNCHANGED <<historical_low, price_history, new_low_events, sent>>]_vars

\* C27 as stated: a (promotion name, year) row is written only if the
\* notification of that window was delivered to at least one channel; with no
\* enabled channel, or no channel that resolves, the window is not marked.
C27_MarkedOnlyIfSent ==
    [][sale_notifications' # sale_notifications
       => \E g \in Guilds : \E c \in ChannelsOf(g) :
              SaleDeliveries(c, DueSale.name, DueSale.year) # <<>>]_vars

\* the free-game notifications delivered for one entity
FreeDeliveries(app_id) ==
    SelectSeq(sent, LAMBDA d : d.embed.kind = "free" /\ d.embed.app_id = app_id)

\* the free_game_events rows of one entity
FreeEventsOf(app_id) ==
    SelectSeq(free_game_events, LAMBDA e : e.app_id = app_id)

\* C28: the poll announces a free transition only after check_free_game has
\* committed is_free = true for the entity (the event row and the sends come
\* from that step on); a send that fails leaves the stored status true; an
\* observation of an entity stored as free announces nothing; so across the
\* cycles of the poll an entity that stays free gets at most one event row and
\* each channel at most one notification, whether or not the sends succeeded.
C28_FreeStatusCommittedBeforeDispatch ==
    /\ [][/\ mon'.pc = "record_free"
             => /\ mon.pc = "check_free"
                /\ ~tracked_games[MonApp].is_free
                /\ tracked_games'[MonApp].is_free
          /\ (mon'.pc = "send_free" /\ mon.pc # "send_free") => mon.pc = "record_free"
          /\ (free_game_events' # free_game_events) => mon.pc = "record_free"
          /\ (\E a \in AppIds : FreeDeliveries(a)' # FreeDeliveries(a))
             => mon.pc = "send_free"
          /\ mon.pc \in {"record_free", "send_free"}
             => /\ tracked_games' = tracked_games
                /\ tracked_games[MonApp].is_free
          /\ (/\ mon.pc = "check_free"
              /\ MonApp \in DOMAIN tracked_games
              /\ tracked_games[MonApp].is_free)
             => /\ mon'.pc \notin {"record_free", "send_free"}
                /\ tracked_games' = tracked_games]_vars
    /\ [](\A a \in AppIds :
            /\ Len(FreeEventsOf(a)) <= 1
            /\ \A g \in Guilds : \A c \in ChannelsOf(g) :
                 Len(SelectSeq(FreeDeliveries(a), LAMBDA d : d.channel_id = c)) <= 1)

\* cycle 1 committed the free-status and wrote the event row, but its fan-out
\* did not reach every channel; cycle 2 has observed the entity as free again
\* and gone through the free-game part without a new row or a new send
C28_Witness ==
    /\ cycles = 2 /\ mon.pc = "sleep" /\ mon.game_info.is_free
    /\ budget = 0
    /\ tracked_games[MonApp].is_free
    /\ FreeEventsOf(MonApp) = << [app_id |-> MonApp, date |-> 1] >>
    /\ Len(FreeDeliveries(MonApp)) < Len(mon.channels_info)

\* C29: for any number of ready events, overlapping handlers included, each
\* loop has at most one running task, so at most one poll cycle and one
\* promotion check are in flight; a task is started only by the part of
\* on_ready that follows the sync, and only when the loop was not running.
C29_AtMostOneTaskPerLoop ==
    /\ [](/\ ready.monitor_prices <= 1
          /\ ready.check_sales_calendar <= 1
          /\ mon.pc # "idle" => ready.monitor_prices = 1
          /\ sale.pc # "idle" => ready.check_sales_calendar = 1)
    /\ [][/\ ready'.monitor_prices # ready.monitor_prices
             => /\ ready.pending > 0 /\ ready'.pending = ready.pending - 1
                /\ ready.monitor_prices = 0 /\ ready'.monitor_prices = 1
          /\ ready'.check_sales_calendar # ready.check_sales_calendar
             => /\ ready.pending > 0 /\ ready'.pending = ready.pending - 1
                /\ ready.check_sales_calendar = 0
                /\ ready'.check_sales_calendar = 1]_vars

\* a second ready event has been handled to the end while a poll cycle and a
\* promotion check, started after the first one, are in flight
C29_Witness ==
    /\ ready.events = 2 /\ ready.pending = 0
    /\ ready.monitor_prices = 1 /\ ready.check_sales_calendar = 1
    /\ mon.pc # "idle" /\ sale.pc # "idle"
    /\ budget = 0

====
